---- MODULE Spec2Model ----
(***************************************************************************)
(* A model of the crawl -> clean -> chunk pipeline of doc-simplifier.      *)
(*                                                                         *)
(* Text is modelled character by character: a Python str is a sequence of  *)
(* one-character strings, so that slicing, strip(), split() and the        *)
(* regular expressions of the source are computed as the code computes     *)
(* them.                                                                   *)
(***************************************************************************)
EXTENDS Integers, Sequences, FiniteSets, TLC

VARIABLES
    \* ---- DocumentChunker (src/app/processor/chunker.py)
    max_tokens,      \* DocumentChunker.max_tokens
    overlap_tokens,  \* DocumentChunker.overlap_tokens
    content,         \* the argument of chunk_document
    chunks,          \* the list chunk_document returned
    chunk_pc,        \* "idle" | "ready" | "done"
    \* ---- DocumentationCrawler (src/app/scraper/crawler.py)
    max_depth,       \* DocumentationCrawler.max_depth
    max_pages,       \* DocumentationCrawler.max_pages
    visited,         \* DocumentationCrawler.visited
    pages,           \* DocumentationCrawler.pages
    base_domain,     \* DocumentationCrawler.base_domain
    base_path,       \* DocumentationCrawler.base_path
    start_url,       \* the argument of crawl
    callback,        \* progress_callback: "none" | "returns" | "raises"
    site,            \* the web site the crawl reads
    tasks,           \* the calls of _crawl_page, each with its position
    crawl_pc,        \* "idle" | "running" | "returned" | "raised"
    \* ---- ContentCleaner (src/app/processor/cleaner.py)
    doc_pages,       \* the argument of clean_content
    cleaned,         \* the string clean_content returned
    recleaned,       \* what clean_content returned for that string as a page
    clean_pc,        \* "idle" | "ready" | "done" | "again"
    code_parts,      \* what the argument of simplify_code_blocks is made of
    code_text,       \* the argument of simplify_code_blocks
    simplified,      \* the string simplify_code_blocks returned
    code_pc,         \* "idle" | "ready" | "done"
    \* ---- process_documentation (src/app/main.py) and its report
    \* ---- (src/app/database.py)
    report,          \* the entry of _reports that create_report made
    proc_pc          \* "idle" | "crawling" | "generating" | "finished"

chunkVars == <<max_tokens, overlap_tokens, content, chunks, chunk_pc>>

crawlVars == <<max_depth, max_pages, visited, pages, base_domain, base_path,
               start_url, callback, site, tasks, crawl_pc>>

cleanVars == <<doc_pages, cleaned, recleaned, clean_pc,
               code_parts, code_text, simplified, code_pc>>

reportVars == <<report, proc_pc>>

vars == <<chunkVars, crawlVars, cleanVars, reportVars>>

----------------------------------------------------------------------------
(* Python str primitives                                                   *)

NL == "\n"

Whitespace == {" ", NL, "\t"}

Min(a, b) == IF a < b THEN a ELSE b

Max(a, b) == IF a < b THEN b ELSE a

\* s[i:]  for a 1-based first index i
From(s, i) == IF i > Len(s) THEN <<>> ELSE SubSeq(s, i, Len(s))

\* s[-n:]; Python reads -0 as 0, so s[-0:] is the whole of s
LastChars(s, n) ==
    IF n = 0 THEN s
    ELSE From(s, Max(1, Len(s) - n + 1))

\* s.startswith(p)
StartsWith(s, p) == Len(p) <= Len(s) /\ SubSeq(s, 1, Len(p)) = p

\* s.endswith(p)
EndsWith(s, p) ==
    Len(p) <= Len(s) /\ SubSeq(s, Len(s) - Len(p) + 1, Len(s)) = p

\* s[i:].startswith(p), i 1-based
MatchAt(s, i, p) ==
    i >= 1 /\ i + Len(p) - 1 <= Len(s) /\ SubSeq(s, i, i + Len(p) - 1) = p

\* p in s
Contains(s, p) == \E i \in 1..(Len(s) + 1) : MatchAt(s, i, p)

\* s.find(p, i): the least index >= i where p occurs, 0 when there is none
Find(s, p, i) ==
    LET hits == {j \in i..(Len(s) + 1) : MatchAt(s, j, p)}
    IN  IF hits = {} THEN 0 ELSE CHOOSE j \in hits : \A k \in hits : j <= k

\* s.lstrip()
RECURSIVE LStrip(_)
LStrip(s) ==
    IF s # <<>> /\ Head(s) \in Whitespace THEN LStrip(Tail(s)) ELSE s

\* s.rstrip()
RECURSIVE RStrip(_)
RStrip(s) ==
    IF s # <<>> /\ s[Len(s)] \in Whitespace
    THEN RStrip(SubSeq(s, 1, Len(s) - 1))
    ELSE s

\* s.strip()
Strip(s) == LStrip(RStrip(s))

\* s.split(sep): cut at the non-overlapping occurrences of sep, left to right
RECURSIVE Split(_, _)
Split(s, sep) ==
    LET j == Find(s, sep, 1)
    IN  IF j = 0 THEN <<s>>
        ELSE <<SubSeq(s, 1, j - 1)>> \o Split(From(s, j + Len(sep)), sep)

\* sep.join(parts)
RECURSIVE Join(_, _)
Join(parts, sep) ==
    IF parts = <<>> THEN <<>>
    ELSE IF Len(parts) = 1 THEN parts[1]
    ELSE parts[1] \o sep \o Join(Tail(parts), sep)

----------------------------------------------------------------------------
(* DocumentChunker                                                         *)

chars_per_token == 4

\* the pattern (?=\n#{1,2}\s) matches at index i
HeaderAt(s, i) ==
    /\ i + 2 <= Len(s)
    /\ s[i] = NL
    /\ s[i + 1] = "#"
    /\ \/ s[i + 2] \in Whitespace
       \/ /\ i + 3 <= Len(s)
          /\ s[i + 2] = "#"
          /\ s[i + 3] \in Whitespace

\* re.split(r"(?=\n#{1,2}\s)", s): cut before every header match; a match at
\* the very start yields an empty first piece
RECURSIVE SplitSectionsFrom(_, _)
SplitSectionsFrom(s, i) ==
    LET hits == {j \in i..Len(s) : HeaderAt(s, j)}
    IN  IF hits = {} THEN <<s>>
        ELSE LET j == CHOOSE k \in hits : \A m \in hits : k <= m
             IN  <<SubSeq(s, 1, j - 1)>> \o SplitSectionsFrom(From(s, j), 2)

SplitSections(s) == SplitSectionsFrom(s, 1)

SentenceEnd == {".", "!", "?"}

\* the end of the whitespace run that starts at index i
RECURSIVE RunEnd(_, _)
RunEnd(s, i) ==
    IF i + 1 <= Len(s) /\ s[i + 1] \in Whitespace THEN RunEnd(s, i + 1) ELSE i

\* re.split(r"(?<=[.!?])\s+", s): cut out every whitespace run that follows
\* a sentence-ending character
RECURSIVE SplitSentences(_)
SplitSentences(s) ==
    LET hits == {j \in 2..Len(s) : s[j] \in Whitespace /\ s[j - 1] \in SentenceEnd}
    IN  IF hits = {} THEN <<s>>
        ELSE LET j == CHOOSE k \in hits : \A m \in hits : k <= m
             IN  <<SubSeq(s, 1, j - 1)>> \o SplitSentences(From(s, RunEnd(s, j) + 1))

\* the sentence loop of _split_by_paragraphs; st = [chunks, current_chunk]
RECURSIVE SentenceLoop(_, _, _, _)
SentenceLoop(sentences, i, st, max_chars) ==
    IF i > Len(sentences) THEN st
    ELSE LET sentence == sentences[i]
             cur == st.current_chunk
             nxt ==
                 IF Len(cur) + Len(sentence) > max_chars
                 THEN [chunks |-> IF cur # <<>>
                                  THEN Append(st.chunks, Strip(cur))
                                  ELSE st.chunks,
                       current_chunk |-> sentence]
                 ELSE [chunks |-> st.chunks,
                       current_chunk |-> IF cur # <<>>
                                         THEN cur \o <<" ">> \o sentence
                                         ELSE sentence]
         IN  SentenceLoop(sentences, i + 1, nxt, max_chars)

\* a chunker that takes no overlap
OverlapNone(current_chunk, overlap_chars) == <<>>

\* the overlap prefix both splitting paths take from the chunk just closed
Overlap(current_chunk, overlap_chars) ==
    IF current_chunk # <<>> THEN LastChars(current_chunk, overlap_chars) ELSE <<>>

\* the paragraph loop of _split_by_paragraphs
RECURSIVE ParagraphLoop(_, _, _, _, _)
ParagraphLoop(paragraphs, i, st, max_chars, overlap_chars) ==
    IF i > Len(paragraphs) THEN st
    ELSE LET para == paragraphs[i]
             cur == st.current_chunk
             closed == IF cur # <<>> THEN Append(st.chunks, Strip(cur)) ELSE st.chunks
             nxt ==
                 IF Strip(para) = <<>> THEN st
                 ELSE IF Len(cur) + Len(para) + 2 > max_chars
                 THEN IF Len(para) > max_chars
                      THEN SentenceLoop(SplitSentences(para), 1,
                               [chunks |-> closed, current_chunk |-> <<>>],
                               max_chars)
                      ELSE [chunks |-> closed,
                            current_chunk |->
                                Overlap(cur, overlap_chars) \o <<NL, NL>> \o para]
                 ELSE [chunks |-> st.chunks,
                       current_chunk |-> IF cur # <<>>
                                         THEN cur \o <<NL, NL>> \o para
                                         ELSE para]
         IN  ParagraphLoop(paragraphs, i + 1, nxt, max_chars, overlap_chars)

\* the final flush both splitting paths end with
Flush(st) ==
    IF Strip(st.current_chunk) # <<>>
    THEN Append(st.chunks, Strip(st.current_chunk))
    ELSE st.chunks

_split_by_paragraphs(text, max_chars, overlap_chars) ==
    Flush(ParagraphLoop(Split(text, <<NL, NL>>), 1,
                        [chunks |-> <<>>, current_chunk |-> <<>>],
                        max_chars, overlap_chars))

\* the section loop of _split_by_sections
RECURSIVE SectionLoop(_, _, _, _, _)
SectionLoop(sections, i, st, max_chars, overlap_chars) ==
    IF i > Len(sections) THEN st
    ELSE LET section == sections[i]
             cur == st.current_chunk
             closed == IF cur # <<>> THEN Append(st.chunks, Strip(cur)) ELSE st.chunks
             sub_chunks == _split_by_paragraphs(section, max_chars, overlap_chars)
             nxt ==
                 IF Strip(section) = <<>> THEN st
                 ELSE IF Len(cur) + Len(section) > max_chars
                 THEN IF Len(section) > max_chars
                      THEN [chunks |-> closed \o
                                SubSeq(sub_chunks, 1, Len(sub_chunks) - 1),
                            current_chunk |->
                                IF sub_chunks # <<>>
                                THEN sub_chunks[Len(sub_chunks)]
                                ELSE <<>>]
                      ELSE [chunks |-> closed,
                            current_chunk |->
                                IF closed # <<>>
                                THEN Overlap(cur, overlap_chars) \o section
                                ELSE section]
                 ELSE [chunks |-> st.chunks, current_chunk |-> cur \o section]
         IN  SectionLoop(sections, i + 1, nxt, max_chars, overlap_chars)

_split_by_sections(text, max_chars, overlap_chars) ==
    Flush(SectionLoop(SplitSections(text), 1,
                      [chunks |-> <<>>, current_chunk |-> <<>>],
                      max_chars, overlap_chars))

chunk_document(text, maxTokens, overlapTokens) ==
    LET max_chars == maxTokens * chars_per_token
        overlap_chars == overlapTokens * chars_per_token
        by_sections == _split_by_sections(text, max_chars, overlap_chars)
    IN  IF Len(text) <= max_chars THEN <<text>>
        ELSE IF by_sections # <<>> THEN by_sections
        ELSE _split_by_paragraphs(text, max_chars, overlap_chars)

----------------------------------------------------------------------------
(* The chunker's inputs: documents built from at most MaxUnits units       *)

MaxUnits == 4

MaxTokensBound == 2

MaxOverlapBound == 1

DocUnits ==
    { <<"a", "a">>, <<"b", ".">>, <<" ">>, <<NL, NL>>, <<NL, "#", " ">>,
      <<NL, "#", "#", " ">> }

RECURSIVE Concat(_)
Concat(parts) == IF parts = <<>> THEN <<>> ELSE Head(parts) \o Concat(Tail(parts))

Documents ==
    { Concat(us) : us \in UNION { [1..n -> DocUnits] : n \in 0..MaxUnits } }

\* the cleaner has no part in a crawl or in chunking
CleanIdle ==
    /\ doc_pages = <<>>
    /\ cleaned = <<>>
    /\ recleaned = <<>>
    /\ clean_pc = "idle"
    /\ code_parts = [first |-> [info |-> <<>>, n |-> 0, present |-> FALSE],
                     prose |-> 0,
                     second |-> [info |-> <<>>, n |-> 0, present |-> FALSE]]
    /\ code_text = <<>>
    /\ simplified = <<>>
    /\ code_pc = "idle"

\* no crawl runs and no report is made while the chunker or the cleaner is
\* exercised
CrawlIdle ==
    /\ report = [present |-> FALSE, status |-> "processing", error |-> "None"]
    /\ proc_pc = "idle"
    /\ max_depth = 0
    /\ max_pages = 1
    /\ visited = {}
    /\ pages = <<>>
    /\ base_domain = <<>>
    /\ base_path = <<>>
    /\ start_url = <<>>
    /\ callback = "none"
    /\ site = <<>>
    /\ tasks = <<>>
    /\ crawl_pc = "idle"

ChunkInit ==
    /\ CrawlIdle
    /\ CleanIdle
    /\ max_tokens \in 1..MaxTokensBound
    /\ overlap_tokens \in 0..MaxOverlapBound
    /\ content \in Documents
    /\ chunks = <<>>
    /\ chunk_pc = "ready"

ChunkDocument ==
    /\ chunk_pc = "ready"
    /\ chunks' = chunk_document(content, max_tokens, overlap_tokens)
    /\ chunk_pc' = "done"
    /\ UNCHANGED <<max_tokens, overlap_tokens, content>>
    /\ UNCHANGED <<crawlVars, cleanVars, reportVars>>

ChunkNext == ChunkDocument

SpecChunk == ChunkInit /\ [][ChunkNext]_vars

----------------------------------------------------------------------------
(* URLs: urllib.parse as far as the crawler uses it                        *)

LowerLetters ==
    <<"a", "b", "c", "d", "e", "f", "g", "h", "i", "j", "k", "l", "m", "n", "o", "p", "q", "r", "s", "t", "u", "v", "w", "x", "y", "z">>

UpperLetters ==
    <<"A", "B", "C", "D", "E", "F", "G", "H", "I", "J", "K", "L", "M", "N", "O", "P", "Q", "R", "S", "T", "U", "V", "W", "X", "Y", "Z">>

Range(f) == {f[i] : i \in DOMAIN f}

\* the lower-case letter of every upper-case letter
LowerOf ==
    [ch \in Range(UpperLetters) |->
        LowerLetters[CHOOSE i \in 1..Len(UpperLetters) : UpperLetters[i] = ch]]

\* ch.lower()
LowerChar(ch) == IF ch \in DOMAIN LowerOf THEN LowerOf[ch] ELSE ch

\* s.lower()
Lower(s) == [i \in 1..Len(s) |-> LowerChar(s[i])]

Digits == {"0", "1", "2", "3", "4", "5", "6", "7", "8", "9"}

SchemeChars == Range(LowerLetters) \cup Range(UpperLetters) \cup Digits \cup {"+", "-", "."}

\* the least index of a character of cs in s, Len(s) + 1 when there is none
FirstOf(s, cs) ==
    LET hits == {j \in 1..Len(s) : s[j] \in cs}
    IN  IF hits = {} THEN Len(s) + 1 ELSE CHOOSE j \in hits : \A k \in hits : j <= k

\* the index of the colon ending the scheme of u, 0 when u has no scheme
SchemeColon(u) ==
    LET k == FirstOf(u, {":"})
    IN  IF /\ k <= Len(u)
           /\ k > 1
           /\ u[1] \in Range(LowerLetters) \cup Range(UpperLetters)
           /\ \A j \in 1..(k - 1) : u[j] \in SchemeChars
        THEN k ELSE 0

\* urlparse(u).scheme
UrlScheme(u) ==
    IF SchemeColon(u) = 0 THEN <<>> ELSE Lower(SubSeq(u, 1, SchemeColon(u) - 1))

AfterScheme(u) == From(u, SchemeColon(u) + 1)

HasNetloc(u) == StartsWith(AfterScheme(u), <<"/", "/">>)

\* urlparse(u).netloc
UrlNetloc(u) ==
    IF HasNetloc(u)
    THEN LET rest == From(AfterScheme(u), 3)
         IN  SubSeq(rest, 1, FirstOf(rest, {"/", "?", "#"}) - 1)
    ELSE <<>>

\* urlparse(u).path
UrlPath(u) ==
    LET rest == IF HasNetloc(u)
                THEN From(AfterScheme(u), 3 + Len(UrlNetloc(u)))
                ELSE AfterScheme(u)
    IN  SubSeq(rest, 1, FirstOf(rest, {"?", "#"}) - 1)

\* s.rsplit("/", 1)[0]: what precedes the last slash (all of s without one)
RSplitSlashHead(s) ==
    LET hits == {j \in 1..Len(s) : s[j] = "/"}
    IN  IF hits = {} THEN s
        ELSE SubSeq(s, 1, (CHOOSE j \in hits : \A k \in hits : j >= k) - 1)

\* urljoin(base, href) for the hrefs of the modelled sites: an href with a
\* scheme stands as it is, one starting with a slash replaces the path of
\* base, any other is appended to the directory of base
urljoin(base, href) ==
    IF href = <<>> THEN base
    ELSE IF SchemeColon(href) # 0 THEN href
    ELSE LET origin == UrlScheme(base) \o <<":", "/", "/">> \o UrlNetloc(base)
         IN  IF Head(href) = "/" THEN origin \o href
             ELSE IF Head(href) \in {"#", "?"} THEN origin \o UrlPath(base) \o href
             ELSE origin \o RSplitSlashHead(UrlPath(base)) \o <<"/">> \o href

\* url.rstrip("/")
RECURSIVE RStripSlash(_)
RStripSlash(s) ==
    IF s # <<>> /\ s[Len(s)] = "/" THEN RStripSlash(SubSeq(s, 1, Len(s) - 1)) ELSE s

\* url.split("#")[0]
StripFragment(u) == SubSeq(u, 1, FirstOf(u, {"#"}) - 1)

\* the normalization _crawl_page applies to its argument
Normalize(u) == RStripSlash(StripFragment(u))

----------------------------------------------------------------------------
(* DocumentationCrawler._extract_links: the link filter                    *)

skip_patterns ==
    << <<"/", "b", "l", "o", "g">>, <<"/", "n", "e", "w", "s">>, <<"/", "p", "r", "e", "s", "s">>, <<"/", "c", "a", "r", "e", "e", "r", "s">>, <<"/", "a", "b", "o", "u", "t">>,
       <<"/", "l", "o", "g", "i", "n">>, <<"/", "s", "i", "g", "n", "u", "p">>, <<"/", "p", "r", "i", "c", "i", "n", "g">>, <<"/", "c", "o", "n", "t", "a", "c", "t">>,
       <<".", "p", "d", "f">>, <<".", "z", "i", "p">>, <<".", "t", "a", "r">>, <<".", "g", "z">> >>

\* any(pattern in full_url.lower() for pattern in skip_patterns)
Skipped(full_url) ==
    \E i \in 1..Len(skip_patterns) : Contains(Lower(full_url), skip_patterns[i])

\* a filter without the domain test
SameDomainAlways(full_url, domain) == TRUE

\* "Only follow links within same domain"
SameDomain(full_url, domain) == UrlNetloc(full_url) = domain

\* a filter without the path test
OutsideDocsNever(full_url, path) == FALSE

\* "Stay within the documentation path if possible": outside the base path
\* a link is dropped only when the base path has a non-empty parent that
\* the link's path does not start with
OutsideDocs(full_url, path) ==
    /\ path # <<>>
    /\ ~StartsWith(UrlPath(full_url), path)
    /\ LET parent_path == RSplitSlashHead(path)
       IN  parent_path # <<>> /\ ~StartsWith(UrlPath(full_url), parent_path)

\* one pass of the loop body over an anchor: TRUE when the link is appended
Eligible(href, current_url, domain, path) ==
    LET full_url == urljoin(current_url, href)
    IN  /\ ~StartsWith(href, <<"#">>)
        /\ ~StartsWith(href, <<"j", "a", "v", "a", "s", "c", "r", "i", "p", "t", ":">>)
        /\ SameDomain(full_url, domain)
        /\ ~OutsideDocs(full_url, path)
        /\ ~Skipped(full_url)

\* list(set(links)), as the set it is: the order of the list is not fixed
_extract_links(hrefs, current_url, domain, path) ==
    { StripFragment(urljoin(current_url, hrefs[i])) :
        i \in {j \in 1..Len(hrefs) : Eligible(hrefs[j], current_url, domain, path)} }

----------------------------------------------------------------------------
(* The web the crawler reads: each modelled site maps the URLs that answer *)
(* to their response; a URL the site does not hold fails (transport error, *)
(* timeout or non-2xx status, all of which httpx raises as HTTPError)      *)

UrlStart == <<"h", "t", "t", "p", "s", ":", "/", "/", "h", "/", "d", "/", "i">>
UrlDeep == <<"h", "t", "t", "p", "s", ":", "/", "/", "h", "/", "d", "/", "g", "/", "i">>
UrlDown == <<"h", "t", "t", "p", "s", ":", "/", "/", "h", "/", "d", "/", "d", "o", "w", "n">>
UrlA == <<"h", "t", "t", "p", "s", ":", "/", "/", "h", "/", "d", "/", "a">>
UrlB == <<"h", "t", "t", "p", "s", ":", "/", "/", "h", "/", "d", "/", "b">>
UrlC == <<"h", "t", "t", "p", "s", ":", "/", "/", "h", "/", "d", "/", "c">>
UrlE == <<"h", "t", "t", "p", "s", ":", "/", "/", "h", "/", "d", "/", "e">>
UrlF == <<"h", "t", "t", "p", "s", ":", "/", "/", "h", "/", "d", "/", "f">>
UrlK == <<"h", "t", "t", "p", "s", ":", "/", "/", "h", "/", "d", "/", "k">>
UrlA1 == <<"h", "t", "t", "p", "s", ":", "/", "/", "h", "/", "d", "/", "a", "1">>
UrlA2 == <<"h", "t", "t", "p", "s", ":", "/", "/", "h", "/", "d", "/", "a", "2">>
UrlA3 == <<"h", "t", "t", "p", "s", ":", "/", "/", "h", "/", "d", "/", "a", "3">>
UrlB1 == <<"h", "t", "t", "p", "s", ":", "/", "/", "h", "/", "d", "/", "b", "1">>
UrlB2 == <<"h", "t", "t", "p", "s", ":", "/", "/", "h", "/", "d", "/", "b", "2">>
UrlB3 == <<"h", "t", "t", "p", "s", ":", "/", "/", "h", "/", "d", "/", "b", "3">>
UrlPlain == <<"h", "t", "t", "p", ":", "/", "/", "h", "/", "d", "/", "e">>
UrlOut == <<"h", "t", "t", "p", "s", ":", "/", "/", "h", "/", "x", "/", "a">>

\* a response: its kind, len(content) of the extracted content, and the
\* href attributes of its anchors in document order
Html(length, hrefs) == [status |-> "html", length |-> length, hrefs |-> hrefs]

NonHtml == [status |-> "nonhtml", length |-> 0, hrefs |-> <<>>]

Failed == [status |-> "error", length |-> 0, hrefs |-> <<>>]

\* two pages linking to each other and back to the start
SitePair ==
    (UrlStart :> Html(150, <<UrlA, UrlB, <<"#", "t", "o", "p">>>>))
    @@ (UrlA :> Html(150, <<<<"h", "t", "t", "p", "s", ":", "/", "/", "h", "/", "d", "/", "i", "/">>, UrlB>>))
    @@ (UrlB :> Html(150, <<<<"h", "t", "t", "p", "s", ":", "/", "/", "h", "/", "d", "/", "a", "#", "s">>, UrlB>>))

\* one page linked under three spellings
SiteDup ==
    (UrlStart :> Html(150, <<UrlA, <<"h", "t", "t", "p", "s", ":", "/", "/", "h", "/", "d", "/", "a", "/">>, <<"h", "t", "t", "p", "s", ":", "/", "/", "h", "/", "d", "/", "a", "#", "s">>,
                             <<"j", "a", "v", "a", "s", "c", "r", "i", "p", "t", ":", "v">>, <<"/", "d", "/", "b">>>>))
    @@ (UrlA :> Html(101, <<<<"b", "#", "t">>>>))
    @@ (UrlB :> Html(100, <<UrlA>>))

\* links the filter has to judge
SiteFilter ==
    (UrlStart :> Html(150, <<<<"h", "t", "t", "p", "s", ":", "/", "/", "g", "/", "d", "/", "a">>, UrlPlain, <<"h", "t", "t", "p", "s", ":", "/", "/", "h", "/", "d", "/", "p", "r", "i", "c", "i", "n", "g">>,
                             <<"h", "t", "t", "p", "s", ":", "/", "/", "h", "/", "d", "/", "B", "l", "o", "g", "/", "x">>, <<"h", "t", "t", "p", "s", ":", "/", "/", "h", "/", "d", "/", "x", ".", "p", "d", "f">>,
                             UrlOut, UrlA>>))
    @@ (UrlDeep :> Html(150, <<UrlOut, UrlA, <<"h", "t", "t", "p", "s", ":", "/", "/", "h", "/", "d", "/", "g", "/", "l", "o", "g", "i", "n">>, UrlPlain>>))
    @@ (UrlA :> Html(150, <<>>))
    @@ (UrlOut :> Html(150, <<>>))
    @@ (UrlPlain :> Html(150, <<>>))

\* six links, more than one batch; UrlA fails, UrlB is not HTML, UrlC is
\* too short to keep
SiteSix ==
    (UrlStart :> Html(150, <<UrlA, UrlB, UrlC, UrlE, UrlF, UrlK>>))
    @@ (UrlB :> NonHtml)
    @@ (UrlC :> Html(100, <<>>))
    @@ (UrlE :> Html(150, <<>>))
    @@ (UrlF :> Html(150, <<>>))
    @@ (UrlK :> Html(150, <<>>))

\* two levels of three links each; only UrlA1 is long enough to keep
SiteWide ==
    (UrlStart :> Html(50, <<UrlA, UrlB>>))
    @@ (UrlA :> Html(50, <<UrlA1, UrlA2, UrlA3>>))
    @@ (UrlB :> Html(50, <<UrlB1, UrlB2, UrlB3>>))
    @@ (UrlA1 :> Html(150, <<>>))
    @@ (UrlA2 :> Html(50, <<>>))
    @@ (UrlA3 :> Html(50, <<>>))
    @@ (UrlB1 :> Html(50, <<>>))
    @@ (UrlB2 :> Html(50, <<>>))
    @@ (UrlB3 :> Html(50, <<>>))

Sites == {SitePair, SiteDup, SiteFilter, SiteSix, SiteWide}

\* the start URLs tried on a site
StartUrls(s) ==
    IF s = SiteFilter THEN {UrlStart, UrlDeep}
    ELSE IF s = SiteSix THEN {UrlStart, UrlDown}
    ELSE {UrlStart}

\* client.get(url) followed by raise_for_status() and the content-type test
Fetch(s, url) == IF url \in DOMAIN s THEN s[url] ELSE Failed

----------------------------------------------------------------------------
(* DocumentationCrawler                                                    *)

\* "if content and len(content) > 100"
MinContent == 100

\* "for link in links[:20]"
LinkCap == 20

\* "for i in range(0, len(tasks), 5)"
BatchSize == 5

MaxDepthBound == 2

MaxPagesBound == 3

\* a call of _crawl_page is named by the links that led to it from the start
RootId == <<start_url>>

ParentOf(id) == SubSeq(id, 1, Len(id) - 1)

\* the coroutine object for _crawl_page(url, depth, progress_callback)
NewTask(url, depth) ==
    [arg |-> url, url |-> <<>>, depth |-> depth, pc |-> "created",
     fetched |-> FALSE, accepted |-> FALSE, expanded |-> FALSE,
     links |-> {}, todo |-> {}, batch |-> {},
     outcome |-> "", raised |-> FALSE]

\* a crawler that hands its own depth on to the links of a page
ChildDepthSame(d) == d

\* the depth a link of a page at depth d is crawled with
ChildDepth(d) == d + 1

\* a crawler that never records the URL it is about to fetch
MarkVisitedNever(seen, url) == seen

\* "self.visited.add(url)"
MarkVisited(seen, url) == seen \cup {url}

\* "if len(self.pages) >= self.max_pages"
BudgetSpent(ps, limit) == Len(ps) >= limit

\* a _crawl_page without its try/except
HandledNever(exc) == FALSE

\* the except clauses of _crawl_page: httpx.HTTPError, then Exception
Handled(exc) == exc \in {"HTTPError", "Exception"}

\* a call of _crawl_page that never comes to its end
FinishedStuck(t, why, exc) == t

\* _crawl_page returns (or, with an exception no clause handles, raises)
Finished(t, why, exc) ==
    [t EXCEPT !.pc = "done", !.outcome = why, !.batch = {}, !.todo = {},
              !.raised = (exc # "" /\ ~Handled(exc))]

\* links[:20]: the lists of at most LinkCap links the set may be cut to
Capped(links) ==
    IF Cardinality(links) <= LinkCap THEN {links}
    ELSE {c \in SUBSET links : Cardinality(c) = LinkCap}

\* tasks[i:i+5]: the next batch is some BatchSize of the waiting tasks (all
\* of them when fewer wait), the list order being any order of the set
Batches(todo) ==
    {b \in SUBSET todo : Cardinality(b) = Min(BatchSize, Cardinality(todo))}

\* asyncio.gather(*batch, return_exceptions=True): the coroutines of the
\* batch become tasks of the event loop
Gather(id, t, b) ==
    ([x \in {id} |-> [t EXCEPT !.pc = "gather",
                               !.batch = {Append(id, l) : l \in b},
                               !.todo = t.todo \ b]])
    @@ [x \in {Append(id, l) : l \in b} |->
            NewTask(x[Len(x)], ChildDepth(t.depth))]
    @@ tasks

\* crawl(start_url, progress_callback), up to its call of _crawl_page
Crawl ==
    /\ crawl_pc = "idle"
    /\ \E u \in StartUrls(site) :
        /\ start_url' = u
        /\ base_domain' = UrlNetloc(u)
        /\ base_path' = IF Contains(UrlPath(u), <<"/">>)
                        THEN RSplitSlashHead(UrlPath(u))
                        ELSE <<>>
        /\ tasks' = (<<u>> :> NewTask(u, 0))
    /\ crawl_pc' = "running"
    /\ UNCHANGED <<max_depth, max_pages, site, callback, visited, pages>>
    /\ UNCHANGED <<chunkVars, cleanVars, reportVars>>

\* _crawl_page from its call to the suspension in client.get, or to one of
\* the three early returns. The event loop starts the tasks of a batch one
\* after the other before any response arrives; here a task may start at
\* any time after gather, which includes that schedule.
Enter(id) ==
    /\ tasks[id].pc = "created"
    /\ LET t == tasks[id]
           url == Normalize(t.arg)
       IN  IF url \in visited
           THEN /\ tasks' = [tasks EXCEPT ![id] = Finished([t EXCEPT !.url = url], "visited", "")]
                /\ UNCHANGED visited
           ELSE IF t.depth > max_depth
           THEN /\ tasks' = [tasks EXCEPT ![id] = Finished([t EXCEPT !.url = url], "depth", "")]
                /\ UNCHANGED visited
           ELSE IF BudgetSpent(pages, max_pages)
           THEN /\ tasks' = [tasks EXCEPT ![id] = Finished([t EXCEPT !.url = url], "budget", "")]
                /\ UNCHANGED visited
           ELSE /\ visited' = MarkVisited(visited, url)
                /\ tasks' = [tasks EXCEPT ![id] =
                                 [t EXCEPT !.url = url, !.pc = "fetching", !.fetched = TRUE]]
    /\ UNCHANGED <<max_depth, max_pages, site, callback, start_url,
                   base_domain, base_path, pages, crawl_pc>>
    /\ UNCHANGED <<chunkVars, cleanVars, reportVars>>

\* _crawl_page from the response of client.get to its next suspension (the
\* first gather) or its return; progress_callback (update_progress of
\* main.py) does not suspend. A page is recorded with the length of its
\* content in place of its title and content.
Respond(id) ==
    /\ tasks[id].pc = "fetching"
    /\ LET t == tasks[id]
           response == Fetch(site, t.url)
           keep == response.length > MinContent
           links == _extract_links(response.hrefs, t.url, base_domain, base_path)
       IN  IF response.status = "error"
           THEN /\ tasks' = [tasks EXCEPT ![id] = Finished(t, "error", "HTTPError")]
                /\ UNCHANGED pages
           ELSE IF response.status = "nonhtml"
           THEN /\ tasks' = [tasks EXCEPT ![id] = Finished(t, "nonhtml", "")]
                /\ UNCHANGED pages
           ELSE /\ pages' = IF keep
                            THEN Append(pages, [url |-> t.url, depth |-> t.depth,
                                                length |-> response.length])
                            ELSE pages
                /\ IF keep /\ callback = "raises"
                   THEN tasks' = [tasks EXCEPT ![id] =
                            Finished([t EXCEPT !.accepted = TRUE], "callback", "Exception")]
                   ELSE IF t.depth < max_depth
                   THEN \E c \in Capped(links) :
                        LET waiting == {l \in c : l \notin visited}
                            t2 == [t EXCEPT !.accepted = keep, !.expanded = TRUE,
                                            !.links = waiting, !.todo = waiting]
                        IN  IF waiting = {}
                            THEN tasks' = [tasks EXCEPT ![id] = Finished(t2, "complete", "")]
                            ELSE \E b \in Batches(waiting) : tasks' = Gather(id, t2, b)
                   ELSE tasks' = [tasks EXCEPT ![id] =
                            Finished([t EXCEPT !.accepted = keep], "complete", "")]
    /\ UNCHANGED <<max_depth, max_pages, site, callback, start_url,
                   base_domain, base_path, visited, crawl_pc>>
    /\ UNCHANGED <<chunkVars, cleanVars, reportVars>>

\* gather returns once every task of the batch is done, holding what they
\* raised as values; _crawl_page goes on to asyncio.sleep(0.5)
BatchDone(id) ==
    /\ tasks[id].pc = "gather"
    /\ \A c \in tasks[id].batch : tasks[c].pc = "done"
    /\ tasks' = [tasks EXCEPT ![id].pc = "sleep", ![id].batch = {}]
    /\ UNCHANGED <<max_depth, max_pages, site, callback, start_url,
                   base_domain, base_path, visited, pages, crawl_pc>>
    /\ UNCHANGED <<chunkVars, cleanVars, reportVars>>

\* the sleep is over: the next batch is gathered, or the loop and with it
\* _crawl_page ends
Wake(id) ==
    /\ tasks[id].pc = "sleep"
    /\ LET t == tasks[id]
       IN  IF t.todo = {}
           THEN tasks' = [tasks EXCEPT ![id] = Finished(t, "complete", "")]
           ELSE \E b \in Batches(t.todo) : tasks' = Gather(id, t, b)
    /\ UNCHANGED <<max_depth, max_pages, site, callback, start_url,
                   base_domain, base_path, visited, pages, crawl_pc>>
    /\ UNCHANGED <<chunkVars, cleanVars, reportVars>>

\* crawl returns self.pages, or raises what _crawl_page raised
Return ==
    /\ crawl_pc = "running"
    /\ tasks[RootId].pc = "done"
    /\ crawl_pc' = IF tasks[RootId].raised THEN "raised" ELSE "returned"
    /\ UNCHANGED <<max_depth, max_pages, site, callback, start_url,
                   base_domain, base_path, visited, pages, tasks>>
    /\ UNCHANGED <<chunkVars, cleanVars, reportVars>>

\* the chunker has no part in a crawl
ChunkIdle ==
    /\ max_tokens = 1
    /\ overlap_tokens = 0
    /\ content = <<>>
    /\ chunks = <<>>
    /\ chunk_pc = "idle"

\* DocumentationCrawler(max_depth, max_pages) as constructed
Constructed ==
    /\ visited = {}
    /\ pages = <<>>
    /\ base_domain = <<>>
    /\ base_path = <<>>
    /\ start_url = <<>>
    /\ tasks = <<>>
    /\ crawl_pc = "idle"

\* the entry create_report puts into _reports
create_report ==
    [present |-> TRUE, status |-> "processing", error |-> "None"]

\* the error of the empty crawl, and str(e)[:200] of an exception
NoContentFound == "No content found at URL"

ExceptionText == "str(e)[:200]"

fail_report_skipped(r, error) == r

\* fail_report(report_id, error): nothing for a report that was deleted
fail_report(r, error) ==
    IF r.present THEN [r EXCEPT !.status = "failed", !.error = error] ELSE r

\* complete_report(report_id, report_data)
complete_report(r) ==
    IF r.present THEN [r EXCEPT !.status = "complete"] ELSE r

\* process_documentation from the return of crawl to the suspension in
\* generate_report, or to its end when crawl returned no page or raised;
\* cleaning and chunking do not suspend
AfterCrawl ==
    /\ proc_pc = "crawling"
    /\ crawl_pc \in {"returned", "raised"}
    /\ IF crawl_pc = "raised"
       THEN /\ report' = fail_report(report, ExceptionText)
            /\ proc_pc' = "finished"
       ELSE IF pages = <<>>
       THEN /\ report' = fail_report(report, NoContentFound)
            /\ proc_pc' = "finished"
       ELSE /\ report' = report
            /\ proc_pc' = "generating"
    /\ UNCHANGED <<crawlVars, chunkVars, cleanVars>>

\* generate_report returns and complete_report is called, or it raises
\* and the except clause calls fail_report
AfterGenerate ==
    /\ proc_pc = "generating"
    /\ \E raised \in BOOLEAN :
          report' = IF raised THEN fail_report(report, ExceptionText)
                    ELSE complete_report(report)
    /\ proc_pc' = "finished"
    /\ UNCHANGED <<crawlVars, chunkVars, cleanVars>>

\* the DELETE /report/{report_id} endpoint, served while
\* process_documentation is suspended or after it. The crawl neither reads
\* nor writes the report, so a deletion during the crawl has the effect of
\* one at its end, and is taken there.
DeleteReport ==
    /\ report.present
    /\ crawl_pc \in {"returned", "raised"}
    /\ report' = [report EXCEPT !.present = FALSE]
    /\ UNCHANGED proc_pc
    /\ UNCHANGED <<crawlVars, chunkVars, cleanVars>>

\* process_documentation after create_report, with its crawler constructed
\* (main.py gives it max_depth = 2 and max_pages = 20; here every budget
\* within the bounds)
Init ==
    /\ report = create_report
    /\ proc_pc = "crawling"
    /\ max_depth \in 0..MaxDepthBound
    /\ max_pages \in 1..MaxPagesBound
    /\ site \in Sites
    /\ callback \in {"none", "returns", "raises"}
    /\ Constructed
    /\ ChunkIdle
    /\ CleanIdle

Next ==
    \/ Crawl
    \/ \E id \in DOMAIN tasks : Enter(id)
    \/ \E id \in DOMAIN tasks : Respond(id)
    \/ \E id \in DOMAIN tasks : BatchDone(id)
    \/ \E id \in DOMAIN tasks : Wake(id)
    \/ Return
    \/ AfterCrawl
    \/ AfterGenerate
    \/ DeleteReport

Spec == Init /\ [][Next]_vars

\* the calls of _crawl_page suspended in client.get
Fetching == {id \in DOMAIN tasks : tasks[id].pc = "fetching"}

\* a fetch in flight ends: its call of _crawl_page leaves client.get
FetchEnds == \E id \in Fetching : tasks'[id].pc # "fetching"

\* every fetch in flight completes, fails or times out (timeout=30.0 of
\* the client). This is WF_vars(\E id \in DOMAIN tasks : Respond(id))
\* written out: Respond(id) is enabled exactly when id is in Fetching, and
\* it is the only action that takes a call out of client.get.
FetchesEnd == []<>(Fetching = {}) \/ []<><<FetchEnds>>_vars

\* the crawl under an event loop that runs every call that is ready, ends
\* every gather whose batch is done and every sleep, and under a network
\* whose fetches end
FairSpec ==
    /\ Spec
    /\ WF_vars(\E id \in DOMAIN tasks : Enter(id))
    /\ FetchesEnd
    /\ WF_vars(\E id \in DOMAIN tasks : BatchDone(id))
    /\ WF_vars(\E id \in DOMAIN tasks : Wake(id))
    /\ WF_vars(Return)

\* crawl(start_url, progress_callback) called on a crawler whose earlier
\* crawl has returned: crawl sets base_domain and base_path and calls
\* _crawl_page; visited and pages are assigned in __init__ only
CrawlAgain ==
    /\ crawl_pc = "returned"
    /\ \E u \in StartUrls(site) :
        /\ start_url' = u
        /\ base_domain' = UrlNetloc(u)
        /\ base_path' = IF Contains(UrlPath(u), <<"/">>)
                        THEN RSplitSlashHead(UrlPath(u))
                        ELSE <<>>
        /\ tasks' = (<<u>> :> NewTask(u, 0))
    /\ crawl_pc' = "running"
    /\ UNCHANGED <<max_depth, max_pages, site, callback, visited, pages>>
    /\ UNCHANGED <<chunkVars, cleanVars, reportVars>>

NextReuse == Next \/ CrawlAgain

\* a crawler that is given one crawl after the other
SpecReuse == Init /\ [][NextReuse]_vars

----------------------------------------------------------------------------
(* ContentCleaner                                                          *)

\* the bullet character U+2022 of the pattern for lone dashes, as one
\* character
Bullet == "U+2022"

\* the backquote character U+0060, as one character
Backquote == "U+0060"

\* the delimiter of a fenced code block
Fence == <<Backquote, Backquote, Backquote>>

\* s with the characters at the indices in drop removed
Without(s, drop) ==
    LET indexed == [i \in 1..Len(s) |-> <<i, s[i]>>]
        kept == SelectSeq(indexed, LAMBDA p : p[1] \notin drop)
    IN  [i \in 1..Len(kept) |-> kept[i][2]]

\* re.sub(r"\n{3,}", "\n\n", text): of a run of newlines the first two stay
CollapseNewlines(text) ==
    Without(text, {i \in 3..Len(text) :
                     text[i] = NL /\ text[i - 1] = NL /\ text[i - 2] = NL})

\* re.sub(r" {2,}", " ", text): of a run of spaces the first stays
CollapseSpaces(text) ==
    Without(text, {i \in 2..Len(text) : text[i] = " " /\ text[i - 1] = " "})

\* re.sub(r"\t+", " ", text): a run of tabs becomes one space
CollapseTabs(text) ==
    LET spaced == [i \in 1..Len(text) |-> IF text[i] = "\t" THEN " " ELSE text[i]]
    IN  Without(spaced, {i \in 2..Len(text) : text[i] = "\t" /\ text[i - 1] = "\t"})

\* a literal of a pattern, matched ignoring case: one character class each
Lit(s) == [i \in 1..Len(s) |-> {s[i]}]

FourDigits == [i \in 1..4 |-> Digits]

\* noise_patterns: each is one of the heads, then (when wild) the lazy .*?
\* that DOTALL lets run across newlines, then the first of the tails that
\* matches, then an optional character
Noise(heads, wild, tails, opt) ==
    [heads |-> heads, wild |-> wild, tails |-> tails, opt |-> opt]

noise_patterns ==
    << Noise(<<Lit(<<"c", "o", "o", "k", "i", "e">>)>>, TRUE,
             <<Lit(<<"p", "o", "l", "i", "c", "y">>), Lit(<<"c", "o", "n", "s", "e", "n", "t">>), Lit(<<"p", "r", "e", "f", "e", "r", "e", "n", "c", "e", "s">>)>>, {}),
       Noise(<<Lit(<<"s", "u", "b", "s", "c", "r", "i", "b", "e">>)>>, TRUE, <<Lit(<<"n", "e", "w", "s", "l", "e", "t", "t", "e", "r">>)>>, {}),
       Noise(<<Lit(<<"f", "o", "l", "l", "o", "w", " ", "u", "s", " ", "o", "n">>)>>, TRUE,
             <<Lit(<<"t", "w", "i", "t", "t", "e", "r">>), Lit(<<"f", "a", "c", "e", "b", "o", "o", "k">>), Lit(<<"l", "i", "n", "k", "e", "d", "i", "n">>)>>, {}),
       Noise(<<Lit(<<"s", "h", "a", "r", "e", " ", "t", "h", "i", "s">>)>>, TRUE, <<Lit(<<"a", "r", "t", "i", "c", "l", "e">>), Lit(<<"p", "a", "g", "e">>)>>, {}),
       Noise(<<Lit(<<"w", "a", "s", " ", "t", "h", "i", "s">>)>>, TRUE, <<Lit(<<"h", "e", "l", "p", "f", "u", "l">>)>>, {"?"}),
       Noise(<<Lit(<<"p", "r", "e", "v", "i", "o", "u", "s", " ">>), Lit(<<"n", "e", "x", "t", " ">>)>>, FALSE,
             <<Lit(<<"a", "r", "t", "i", "c", "l", "e">>), Lit(<<"p", "a", "g", "e">>)>>, {}),
       Noise(<<Lit(<<"t", "a", "b", "l", "e", " ", "o", "f", " ", "c", "o", "n", "t", "e", "n", "t", "s">>)>>, FALSE, <<<<>>>>, {}),
       Noise(<<Lit(<<"o", "n", " ", "t", "h", "i", "s", " ", "p", "a", "g", "e">>)>>, FALSE, <<<<>>>>, {}),
       Noise(<<Lit(<<"s", "k", "i", "p", " ", "t", "o">>)>>, TRUE, <<Lit(<<"c", "o", "n", "t", "e", "n", "t">>)>>, {}),
       Noise(<<Lit(<<"e", "d", "i", "t", " ", "t", "h", "i", "s", " ", "p", "a", "g", "e">>)>>, TRUE, <<Lit(<<"g", "i", "t", "h", "u", "b">>)>>, {}),
       Noise(<<Lit(<<"l", "a", "s", "t", " ", "u", "p", "d", "a", "t", "e", "d", ":">>)>>, TRUE, <<FourDigits>>, {}),
       Noise(<<Lit(<<"r", "e", "a", "d", "i", "n", "g", " ", "t", "i", "m", "e", ":">>)>>, TRUE, <<Lit(<<"m", "i", "n">>)>>, {}) >>

\* the classes cls match the lower-cased text low at index i
ClassesAt(low, i, cls) ==
    /\ i + Len(cls) - 1 <= Len(low)
    /\ \A k \in 1..Len(cls) : low[i + k - 1] \in cls[k]

\* the least element of a non-empty set of numbers
Least(S) == CHOOSE j \in S : \A k \in S : j <= k

\* the index after the match of pattern p that starts at i, 0 without match
NoiseEnd(low, i, p) ==
    LET hs == {h \in 1..Len(p.heads) : ClassesAt(low, i, p.heads[h])}
    IN  IF hs = {} THEN 0
        ELSE LET from == i + Len(p.heads[Least(hs)])
                 last == IF p.wild THEN Len(low) + 1 ELSE from
                 at == {j \in from..last :
                          \E t \in 1..Len(p.tails) : ClassesAt(low, j, p.tails[t])}
             IN  IF at = {} THEN 0
                 ELSE LET j == Least(at)
                          t == Least({x \in 1..Len(p.tails) :
                                        ClassesAt(low, j, p.tails[x])})
                          e == j + Len(p.tails[t])
                      IN  IF e <= Len(low) /\ low[e] \in p.opt THEN e + 1 ELSE e

\* the indices re.sub(pattern, "", text) removes, scanning from index i
RECURSIVE NoiseSpans(_, _, _)
NoiseSpans(low, i, p) ==
    LET starts == {j \in i..Len(low) : NoiseEnd(low, j, p) # 0}
    IN  IF starts = {} THEN {}
        ELSE LET j == Least(starts)
                 e == NoiseEnd(low, j, p)
             IN  (j..(e - 1)) \cup NoiseSpans(low, e, p)

\* re.sub(pattern, "", text, flags=re.IGNORECASE | re.DOTALL)
RemoveNoise(text, p) == Without(text, NoiseSpans(Lower(text), 1, p))

\* the loop over noise_patterns
RECURSIVE RemoveAllNoise(_, _)
RemoveAllNoise(text, i) ==
    IF i > Len(noise_patterns) THEN text
    ELSE RemoveAllNoise(RemoveNoise(text, noise_patterns[i]), i + 1)

\* $ under re.MULTILINE matches at index i (the index after the match)
LineEndAt(text, i) == i = Len(text) + 1 \/ (i <= Len(text) /\ text[i] = NL)

\* ^ under re.MULTILINE matches at index i
LineStartAt(text, i) == i = 1 \/ (i > 1 /\ text[i - 1] = NL)

\* the index after the match of ^[-U+2022]\s*$ that starts at i, 0 without
\* match; the greedy \s* gives back whitespace until $ matches
DashEnd(text, i) ==
    IF ~(LineStartAt(text, i) /\ i <= Len(text) /\ text[i] \in {"-", Bullet}) THEN 0
    ELSE LET ends == {e \in (i + 1)..(Len(text) + 1) :
                        /\ \A k \in (i + 1)..(e - 1) : text[k] \in Whitespace
                        /\ LineEndAt(text, e)}
         IN  IF ends = {} THEN 0 ELSE CHOOSE e \in ends : \A k \in ends : e >= k

RECURSIVE DashSpans(_, _)
DashSpans(text, i) ==
    LET starts == {j \in i..Len(text) : DashEnd(text, j) # 0}
    IN  IF starts = {} THEN {}
        ELSE LET j == Least(starts)
             IN  (j..(DashEnd(text, j) - 1)) \cup DashSpans(text, DashEnd(text, j))

\* re.sub(r"^[-U+2022]\s*$", "", text, flags=re.MULTILINE)
RemoveDashes(text) == Without(text, DashSpans(text, 1))

\* the test of the loop over lines, on the stripped line
KeepLine(line) ==
    \/ StartsWith(line, <<"#">>)
    \/ Len(line) > 20
    \/ StartsWith(line, <<"-", " ">>)
    \/ StartsWith(line, Fence)
    \/ EndsWith(line, Fence)

\* the loop over text.split("\n") and the join of the lines kept
DropShortLines(text) ==
    LET lines == Split(text, <<NL>>)
        stripped == [i \in 1..Len(lines) |-> Strip(lines[i])]
    IN  Join(SelectSeq(stripped, KeepLine), <<NL>>)

_clean_text(text) ==
    Strip(DropShortLines(RemoveDashes(RemoveAllNoise(
        CollapseTabs(CollapseSpaces(CollapseNewlines(text))), 1))))

\* the loop of _remove_duplicates; st = [seen, unique_paragraphs]
RECURSIVE DuplicateLoop(_, _, _)
DuplicateLoop(paragraphs, i, st) ==
    IF i > Len(paragraphs) THEN st
    ELSE LET para == paragraphs[i]
             normalized == Lower(Strip(para))
             nxt ==
                 IF Len(normalized) < 50
                 THEN [st EXCEPT !.unique_paragraphs = Append(@, para)]
                 ELSE IF normalized \notin st.seen
                 THEN [seen |-> st.seen \cup {normalized},
                       unique_paragraphs |-> Append(st.unique_paragraphs, para)]
                 ELSE st
         IN  DuplicateLoop(paragraphs, i + 1, nxt)

_remove_duplicates(text) ==
    Join(DuplicateLoop(Split(text, <<NL, NL>>), 1,
                       [seen |-> {}, unique_paragraphs |-> <<>>]).unique_paragraphs,
         <<NL, NL>>)

\* "\n\n---\n\n", the separator the pages are joined with
PageSeparator == <<NL, NL, "-", "-", "-", NL, NL>>

\* the loop over pages: f"# {title}\n\n{content}" for every page whose
\* cleaned content has more than 100 characters
RECURSIVE CleanedParts(_, _)
CleanedParts(ps, i) ==
    IF i > Len(ps) THEN <<>>
    ELSE LET text == _clean_text(ps[i].content)
         IN  (IF text # <<>> /\ Len(text) > 100
              THEN <<<<"#", " ">> \o ps[i].title \o <<NL, NL>> \o text>>
              ELSE <<>>)
             \o CleanedParts(ps, i + 1)

clean_content(ps) == _remove_duplicates(Join(CleanedParts(ps, 1), PageSeparator))

\* [\w]: letters, digits and the underscore
WordChars == Range(LowerLetters) \cup Range(UpperLetters) \cup Digits \cup {"_"}

\* the index of the first character from i on that is not a word character
RECURSIVE WordRunEnd(_, _)
WordRunEnd(text, i) ==
    IF i <= Len(text) /\ text[i] \in WordChars THEN WordRunEnd(text, i + 1) ELSE i

\* a match of FENCE[\w]*\n(.*?)FENCE that starts at i: the index where
\* group 1 starts and the index of the closing fence; <<0, 0>> without
\* match. The greedy [\w]* has to be followed by a newline, the lazy .*?
\* ends at the first fence after it (DOTALL).
CodeMatch(text, i) ==
    IF ~MatchAt(text, i, Fence) THEN <<0, 0>>
    ELSE LET k == WordRunEnd(text, i + 3)
         IN  IF ~(k <= Len(text) /\ text[k] = NL) THEN <<0, 0>>
             ELSE LET close == Find(text, Fence, k + 1)
                  IN  IF close = 0 THEN <<0, 0>> ELSE <<k + 1, close>>

DecimalDigits == <<"0", "1", "2", "3", "4", "5", "6", "7", "8", "9">>

\* str(n) of the f-strings
RECURSIVE Decimal(_)
Decimal(n) ==
    IF n < 10 THEN <<DecimalDigits[n + 1]>>
    ELSE Decimal(n \div 10) \o <<DecimalDigits[(n % 10) + 1]>>

\* the two thresholds of replace_code
SummaryOver == 10

PreviewOver == 5

PreviewLines == 3

\* f"\n[Code example with {len(lines)} lines]\n"
Summary(n) ==
    <<NL, "[", "C", "o", "d", "e", " ", "e", "x", "a", "m", "p", "l", "e", " ", "w", "i", "t", "h", " ">>
    \o Decimal(n) \o <<" ", "l", "i", "n", "e", "s", "]", NL>>

\* f"FENCE\n{preview}\n... ({len(lines) - 3} more lines)\nFENCE"
Preview(lines) ==
    Fence \o <<NL>> \o Join(SubSeq(lines, 1, PreviewLines), <<NL>>)
    \o <<NL, ".", ".", ".", " ", "(">> \o Decimal(Len(lines) - PreviewLines)
    \o <<" ", "m", "o", "r", "e", " ", "l", "i", "n", "e", "s", ")", NL>> \o Fence

\* replace_code(match), for the match text[from..to] with group 1 at
\* text[inner..close - 1]
replace_code(text, from, inner, close) ==
    LET code == SubSeq(text, inner, close - 1)
        lines == Split(Strip(code), <<NL>>)
    IN  IF Len(lines) > SummaryOver THEN Summary(Len(lines))
        ELSE IF Len(lines) > PreviewOver THEN Preview(lines)
        ELSE SubSeq(text, from, close + 2)

\* re.sub over the text from index i on: the matches left to right, none
\* overlapping another, each replaced by replace_code
RECURSIVE SimplifyFrom(_, _)
SimplifyFrom(text, i) ==
    LET starts == {j \in i..Len(text) : CodeMatch(text, j) # <<0, 0>>}
    IN  IF starts = {} THEN From(text, i)
        ELSE LET j == Least(starts)
                 m == CodeMatch(text, j)
             IN  SubSeq(text, i, j - 1) \o replace_code(text, j, m[1], m[2])
                 \o SimplifyFrom(text, m[2] + 3)

simplify_code_blocks(text) == SimplifyFrom(text, 1)

----------------------------------------------------------------------------
(* The inputs of simplify_code_blocks: a fenced block, lines of prose and  *)
(* a second fenced block, each of them optional                            *)

MaxCodeLines == 12

MaxProseLines == 6

\* the info strings of the opening fence: none, a word, a name with signs
InfoStrings == {<<>>, <<"p", "y">>, <<"c", "+", "+">>}

NoBlock == [info |-> <<>>, n |-> 0, present |-> FALSE]

CodeBlocks ==
    {[info |-> t, n |-> n, present |-> TRUE] : t \in InfoStrings, n \in 0..MaxCodeLines}

\* n lines, the k-th being the mark followed by k, each ended by a newline
RECURSIVE NumberedLines(_, _)
NumberedLines(mark, n) ==
    IF n = 0 THEN <<>>
    ELSE NumberedLines(mark, n - 1) \o mark \o Decimal(n) \o <<NL>>

\* a fenced block as it stands in a text, its closing fence on a line of
\* its own
BlockText(b) ==
    IF ~b.present THEN <<>>
    ELSE Fence \o b.info \o <<NL>> \o NumberedLines(<<"x", " ", "=", " ">>, b.n)
         \o Fence \o <<NL>>

ProseText(k) == NumberedLines(<<"S", "t", "e", "p", " ">>, k)

CodeDocuments ==
    [first : CodeBlocks \cup {NoBlock}, prose : 0..MaxProseLines,
     second : CodeBlocks \cup {NoBlock}]

RenderCode(d) == BlockText(d.first) \o ProseText(d.prose) \o BlockText(d.second)

\* simplify_code_blocks is not called while clean_content is exercised
CodeIdle ==
    /\ code_parts = [first |-> NoBlock, prose |-> 0, second |-> NoBlock]
    /\ code_text = <<>>
    /\ simplified = <<>>
    /\ code_pc = "idle"

CodeInit ==
    /\ CrawlIdle
    /\ ChunkIdle
    /\ doc_pages = <<>>
    /\ cleaned = <<>>
    /\ recleaned = <<>>
    /\ clean_pc = "idle"
    /\ code_parts \in CodeDocuments
    /\ code_text = RenderCode(code_parts)
    /\ simplified = <<>>
    /\ code_pc = "ready"

SimplifyCodeBlocks ==
    /\ code_pc = "ready"
    /\ simplified' = simplify_code_blocks(code_text)
    /\ code_pc' = "done"
    /\ UNCHANGED <<code_parts, code_text>>
    /\ UNCHANGED <<doc_pages, cleaned, recleaned, clean_pc>>
    /\ UNCHANGED <<crawlVars, chunkVars, reportVars>>

CodeNext == SimplifyCodeBlocks

SpecCode == CodeInit /\ [][CodeNext]_vars

----------------------------------------------------------------------------
(* The cleaner's inputs: at most MaxCleanPages pages, each with one of the *)
(* contents below                                                          *)

MaxCleanPages == 2

\* a paragraph of 80 characters
Shared80 ==
    <<"I", "n", "s", "t", "a", "l", "l", " ", "t", "h", "e", " ", "c", "l", "i", "e", "n", "t", " ", "w", "i", "t", "h", " ", "t", "h", "e", " ", "p", "a", "c", "k", "a", "g", "e", " ", "m", "a", "n", "a", "g", "e", "r", " ", "a", "n", "d", " ", "i", "m", "p", "o", "r", "t", " ", "i", "t", " ", "b", "e", "f", "o", "r", "e", " ", "t", "h", "e", " ", "f", "i", "r", "s", "t", " ", "c", "a", "l", "l", ".">>

\* a paragraph of 50 characters
Shared50 ==
    <<"E", "v", "e", "r", "y", " ", "r", "e", "q", "u", "e", "s", "t", " ", "n", "e", "e", "d", "s", " ", "a", "n", " ", "A", "P", "I", " ", "k", "e", "y", " ", "i", "n", " ", "t", "h", "e", " ", "a", "u", "t", "h", " ", "h", "e", "a", "d", "e", "r", ".">>

\* a paragraph of 49 characters
Shared49 ==
    <<"E", "v", "e", "r", "y", " ", "r", "e", "q", "u", "e", "s", "t", " ", "n", "e", "e", "d", "s", " ", "a", "n", " ", "A", "P", "I", " ", "k", "e", "y", " ", "i", "n", " ", "t", "h", "e", " ", "a", "u", "t", "h", " ", "f", "i", "e", "l", "d", ".">>

\* two paragraphs of 60 characters that no two pages share
OwnFirst ==
    <<"T", "h", "e", " ", "f", "i", "r", "s", "t", " ", "g", "u", "i", "d", "e", " ", "w", "a", "l", "k", "s", " ", "t", "h", "r", "o", "u", "g", "h", " ", "a", " ", "s", "m", "a", "l", "l", " ", "e", "x", "a", "m", "p", "l", "e", " ", "s", "t", "e", "p", " ", "b", "y", " ", "s", "t", "e", "p", ".", ".">>

OwnSecond ==
    <<"T", "h", "i", "s", " ", "s", "e", "c", "o", "n", "d", " ", "d", "o", "c", "u", "m", "e", "n", "t", " ", "l", "i", "s", "t", "s", " ", "e", "v", "e", "r", "y", " ", "o", "p", "t", "i", "o", "n", " ", "o", "f", " ", "t", "h", "e", " ", "c", "o", "m", "m", "a", "n", "d", " ", "l", "i", "n", "e", ".">>

\* a page that is one paragraph of 110 characters
Whole110 ==
    <<"O", "n", "e", " ", "l", "o", "n", "g", " ", "p", "a", "r", "a", "g", "r", "a", "p", "h", " ", "t", "h", "a", "t", " ", "i", "s", " ", "t", "h", "e", " ", "w", "h", "o", "l", "e", " ", "p", "a", "g", "e", " ", "a", "n", "d", " ", "i", "s", " ", "r", "e", "p", "e", "a", "t", "e", "d", " ", "w", "o", "r", "d", " ", "f", "o", "r", " ", "w", "o", "r", "d", " ", "o", "n", " ", "a", "n", "o", "t", "h", "e", "r", " ", "p", "a", "g", "e", " ", "o", "f", " ", "t", "h", "e", " ", "s", "a", "m", "e", " ", "s", "i", "t", "e", " ", "t", "o", "o", ".", ".">>

\* text.upper(), the same words in capitals
Upper(s) ==
    [i \in 1..Len(s) |->
        IF \E k \in 1..Len(LowerLetters) : LowerLetters[k] = s[i]
        THEN UpperLetters[CHOOSE k \in 1..Len(LowerLetters) : LowerLetters[k] = s[i]]
        ELSE s[i]]

\* a page as the content extractor leaves it: a header between blank lines,
\* tabs, a feedback prompt, a lone dash, a list item and a short label
Untidy ==
    <<NL, NL, "#", "#", " ", "G", "u", "i", "d", "e", NL, NL, NL>> \o Shared80 \o <<"\t", "\t", "W", "a", "s", " ", "t", "h", "i", "s", " ", "p", "a", "g", "e", " ", "h", "e", "l", "p", "f", "u", "l", "?", NL, "-", NL, "-", " ", "i", "t", "e", "m", NL, "n", "a", "v", " ", " ", "b", "a", "r", NL>>
    \o OwnFirst \o <<NL, "C", "o", "o", "k", "i", "e", " ", " ", "p", "o", "l", "i", "c", "y">>

\* a page whose navigation label sits inside a line of prose
Labelled ==
    Shared80 \o <<NL>> \o SubSeq(OwnSecond, 1, 20)
    \o <<" ", "T", "a", "b", "l", "e", " ", "o", "f", " ", "C", "o", "n", "t", "e", "n", "t", "s", " ">>
    \o SubSeq(OwnSecond, 21, Len(OwnSecond))

PageContents ==
    { s \o sep \o own : s \in {Shared80, Shared50, Shared49},
                        sep \in {<<NL>>, <<NL, NL>>},
                        own \in {OwnFirst, OwnSecond} }
    \cup {Whole110, Upper(Whole110), Shared49, Untidy, Labelled}

\* the title of the i-th page
TitleOf(i) == <<"T", <<"1", "2", "3", "4", "5", "6", "7", "8", "9">>[i]>>

PageLists ==
    UNION { {[i \in 1..n |-> [title |-> TitleOf(i), content |-> f[i]]] :
               f \in [1..n -> PageContents]} : n \in 0..MaxCleanPages }

\* neither the crawler nor the chunker runs while the cleaner is exercised
CleanInit ==
    /\ CrawlIdle
    /\ ChunkIdle
    /\ doc_pages \in PageLists
    /\ cleaned = <<>>
    /\ recleaned = <<>>
    /\ clean_pc = "ready"
    /\ CodeIdle

CleanContent ==
    /\ clean_pc = "ready"
    /\ cleaned' = clean_content(doc_pages)
    /\ clean_pc' = "done"
    /\ UNCHANGED <<doc_pages, recleaned>>
    /\ UNCHANGED <<code_parts, code_text, simplified, code_pc>>
    /\ UNCHANGED <<crawlVars, chunkVars, reportVars>>

\* the titles a caller gives the page that holds a cleaned document: none
\* (page.get("title", "") is then "") or a title
AgainTitles == {<<>>, TitleOf(1)}

\* clean_content called on what it returned, as the content of one page
CleanAgain ==
    /\ clean_pc = "done"
    /\ \E t \in AgainTitles :
          recleaned' = clean_content(<<[title |-> t, content |-> cleaned]>>)
    /\ clean_pc' = "again"
    /\ UNCHANGED <<doc_pages, cleaned>>
    /\ UNCHANGED <<code_parts, code_text, simplified, code_pc>>
    /\ UNCHANGED <<crawlVars, chunkVars, reportVars>>

CleanNext == CleanContent \/ CleanAgain

SpecClean == CleanInit /\ [][CleanNext]_vars

----------------------------------------------------------------------------
(* Claims about the crawler                                                *)

TaskIds == DOMAIN tasks

\* the URLs of the pages in the result list
PageUrls == {pages[i].url : i \in 1..Len(pages)}

\* the fetches in flight: calls of _crawl_page suspended in client.get
InFlight == {id \in TaskIds : tasks[id].pc = "fetching"}

\* C1: at every moment of a crawl the result list holds at most max_pages
\* pages, concurrent sibling fetches included.
C1_PagesWithinBudget == Len(pages) <= max_pages

\* C2: every page of the result has 0 <= depth <= max_depth, its depth is
\* the number of links followed from the start page to it, and no page is
\* fetched at a depth above max_depth.
C2_DepthWithinBudget ==
    /\ \A i \in 1..Len(pages) :
        /\ pages[i].depth \in 0..max_depth
        /\ \E id \in TaskIds :
            /\ tasks[id].accepted
            /\ tasks[id].url = pages[i].url
            /\ pages[i].depth = Len(id) - 1
    /\ \A id \in TaskIds :
        tasks[id].fetched => Len(id) - 1 <= max_depth /\ tasks[id].depth = Len(id) - 1

\* a page recorded at the depth limit, whose links are therefore not followed
C2_Witness ==
    /\ crawl_pc = "returned"
    /\ max_depth >= 1
    /\ \E id \in TaskIds :
        /\ tasks[id].accepted
        /\ tasks[id].depth = max_depth
        /\ tasks[id].url \in PageUrls
        /\ Fetch(site, tasks[id].url).hrefs # <<>>

\* C3: a failed fetch (transport error, timeout, non-2xx status, non-HTML
\* content type) never raises out of crawl and never aborts the parent: the
\* failed page is not in the result, and the parent still runs every one of
\* its link tasks and completes.
C3_FailureIsolated ==
    /\ crawl_pc # "raised"
    /\ \A id \in TaskIds :
        tasks[id].outcome \in {"error", "nonhtml"} =>
            ~tasks[id].raised /\ tasks[id].url \notin PageUrls
    /\ \A id \in TaskIds :
        (tasks[id].pc = "done" /\ tasks[id].expanded) =>
            /\ tasks[id].outcome = "complete"
            /\ \A l \in tasks[id].links :
                /\ Append(id, l) \in TaskIds
                /\ tasks[Append(id, l)].pc = "done"

\* a crawl that returned although one link of a page of more than one batch
\* failed and another was not HTML, with a sibling of both in the result
C3_Witness ==
    /\ crawl_pc = "returned"
    /\ tasks[RootId].outcome = "complete"
    /\ Cardinality(tasks[RootId].links) > BatchSize
    /\ \E a, b, c \in tasks[RootId].links :
        /\ tasks[Append(RootId, a)].outcome = "error"
        /\ tasks[Append(RootId, b)].outcome = "nonhtml"
        /\ tasks[Append(RootId, c)].accepted
        /\ c \in PageUrls

\* C4: within one crawl each normalized URL (no fragment, no trailing slash)
\* is fetched at most once, whatever the interleaving of sibling fetches.
C4_FetchedOnce ==
    /\ \A a, b \in TaskIds :
        (tasks[a].fetched /\ tasks[b].fetched /\ tasks[a].url = tasks[b].url) => a = b
    /\ \A a \in TaskIds :
        tasks[a].fetched =>
            /\ ~Contains(tasks[a].url, <<"#">>)
            /\ ~EndsWith(tasks[a].url, <<"/">>)
            /\ tasks[a].url \in visited

\* two sibling calls for two spellings of one URL: one is suspended in its
\* fetch when the other finds the URL visited
C4_Witness ==
    \E a, b \in TaskIds :
        /\ a # b
        /\ ParentOf(a) = ParentOf(b)
        /\ tasks[a].arg # tasks[b].arg
        /\ tasks[a].pc = "fetching"
        /\ tasks[b].outcome = "visited"
        /\ tasks[a].url = tasks[b].url

\* C5: at every moment of a crawl at most 5 page fetches are in flight.
C5_InFlightWithinBatch == Cardinality(InFlight) <= BatchSize

\* C6: a progress collaborator that raises after a page is accepted changes
\* nothing: crawl does not raise, the page stays in the result, and the
\* page's links are traversed as they are when the collaborator returns.
C6_CallbackFailureHarmless ==
    /\ crawl_pc # "raised"
    /\ \A id \in TaskIds :
        tasks[id].accepted =>
            /\ tasks[id].url \in PageUrls
            /\ (tasks[id].pc = "done" /\ tasks[id].depth < max_depth) =>
                   tasks[id].expanded

\* scheme + host + port
Origin(u) == <<UrlScheme(u), UrlNetloc(u)>>

\* the calls of _crawl_page made for a link of a page
LinkCalls == {id \in TaskIds : Len(id) > 1}

----------------------------------------------------------------------------
(* Claims about the chunker                                                *)

\* a chunk that no level of splitting can divide: one section, one
\* paragraph, one sentence
SingleSentence(c) ==
    /\ Len(SelectSeq(SplitSections(c), LAMBDA x : Strip(x) # <<>>)) <= 1
    /\ Len(Split(c, <<NL, NL>>)) = 1
    /\ Len(SplitSentences(c)) = 1

\* C8: chunk_document never returns a chunk longer than max_tokens * 4
\* characters, except a chunk that is a single sentence which alone exceeds
\* that bound.
C8_ChunkWithinBudget ==
    chunk_pc = "done" =>
        \A i \in 1..Len(chunks) :
            \/ Len(chunks[i]) <= max_tokens * chars_per_token
            \/ SingleSentence(chunks[i])

\* whitespace normalization: the text with every whitespace character removed
Squeeze(s) == SelectSeq(s, LAMBDA ch : ch \notin Whitespace)

\* the chunks in order, every chunk after the first without its first
\* overlap_tokens * 4 characters
RECURSIVE WithoutOverlap(_, _, _)
WithoutOverlap(cs, i, overlap_chars) ==
    IF i > Len(cs) THEN <<>>
    ELSE (IF i = 1 THEN cs[i] ELSE From(cs[i], overlap_chars + 1))
         \o WithoutOverlap(cs, i + 1, overlap_chars)

\* C9: chunking is lossless: the chunks in order, each without its overlap
\* prefix of overlap_tokens * 4 characters, reproduce the document up to
\* whitespace normalization.
C9_ChunkingLossless ==
    chunk_pc = "done" =>
        Squeeze(WithoutOverlap(chunks, 1, overlap_tokens * chars_per_token))
            = Squeeze(content)

----------------------------------------------------------------------------
(* Claims about the cleaner                                                *)

\* the paragraphs of a page: its non-blank lines, stripped
ParagraphsOf(text) ==
    {Strip(l) : l \in Range(Split(text, <<NL>>))} \ {<<>>}

\* the number of places where p occurs in s
Occurrences(s, p) == Cardinality({i \in 1..Len(s) : MatchAt(s, i, p)})

\* clean_content keeps the page: its cleaned content has over 100 characters
Kept(page) == Len(_clean_text(page.content)) > 100

\* the heading clean_content gives the i-th page
HeadingOf(i) == <<"#", " ">> \o doc_pages[i].title

\* C10: when two kept pages that differ in their other paragraphs both
\* contain the same paragraph of 50 or more characters, the combined cleaned
\* document holds that paragraph exactly once, in the earlier of the two
\* pages.
C10_SharedParagraphOnce ==
    clean_pc = "done" =>
        \A i, j \in 1..Len(doc_pages) :
            (/\ i < j
             /\ Kept(doc_pages[i])
             /\ Kept(doc_pages[j])
             /\ ParagraphsOf(doc_pages[i].content)
                    # ParagraphsOf(doc_pages[j].content)) =>
                \A p \in ParagraphsOf(doc_pages[i].content)
                           \cap ParagraphsOf(doc_pages[j].content) :
                    (/\ Len(p) >= 50
                     /\ Contains(_clean_text(doc_pages[i].content), p)
                     /\ Contains(_clean_text(doc_pages[j].content), p)) =>
                        /\ Occurrences(cleaned, p) = 1
                        /\ Find(cleaned, p, 1) < Find(cleaned, HeadingOf(j), 1)

\* C11: clean_content is idempotent: cleaning the document it returned,
\* given as the content of a page, returns that document unchanged.
C11_CleaningIdempotent ==
    clean_pc = "again" => recleaned = cleaned

----------------------------------------------------------------------------
(* Claims about simplify_code_blocks                                       *)

\* what the rule by line count makes of a fenced block of n lines
BlockByRule(b) ==
    IF ~b.present THEN <<>>
    ELSE IF b.n > SummaryOver THEN Summary(b.n) \o <<NL>>
    ELSE IF b.n > PreviewOver
    THEN Preview(Split(RStrip(NumberedLines(<<"x", " ", "=", " ">>, b.n)), <<NL>>)) \o <<NL>>
    ELSE BlockText(b)

\* C12: every fenced block is treated by its line count n (n > 10: one
\* summary line stating n; 6 <= n <= 10: the first 3 lines and a marker
\* stating n - 3; n <= 5: verbatim) and the text outside the blocks is
\* unchanged.
C12_BlocksByLineCount ==
    code_pc = "done" =>
        simplified = BlockByRule(code_parts.first) \o ProseText(code_parts.prose)
                     \o BlockByRule(code_parts.second)

----------------------------------------------------------------------------
(* Claims about process_documentation                                      *)

\* the crawl is over and has no page
EmptyCrawl == crawl_pc \in {"returned", "raised"} /\ pages = <<>>

\* C13: when the fetch of the start URL fails or no page is accepted,
\* crawl returns an empty sequence without raising; process_documentation
\* then fails the report with the no-content error, and the report of such
\* a crawl is never complete.
C13_EmptyCrawlFailsReport ==
    /\ crawl_pc # "raised"
    /\ (crawl_pc = "returned" /\ \A id \in TaskIds : ~tasks[id].accepted)
           => pages = <<>>
    /\ (crawl_pc = "returned" /\ tasks[RootId].outcome \in {"error", "nonhtml"})
           => pages = <<>>
    /\ EmptyCrawl => report.status # "complete"
    /\ (EmptyCrawl /\ proc_pc = "finished" /\ report.present)
           => (report.status = "failed" /\ report.error = NoContentFound)
    /\ (EmptyCrawl /\ proc_pc # "finished") => ENABLED AfterCrawl

\* the start URL failed, the crawl returned nothing and the report failed
C13_Witness ==
    /\ crawl_pc = "returned"
    /\ tasks[RootId].outcome = "error"
    /\ pages = <<>>
    /\ proc_pc = "finished"
    /\ report.present
    /\ report.status = "failed"
    /\ report.error = NoContentFound

----------------------------------------------------------------------------
(* Claims about a crawler used for several crawls                          *)

\* the URLs the running or last call of crawl has fetched
FetchedByCall == {tasks[id].url : id \in {x \in TaskIds : tasks[x].fetched}}

\* C14: every call of crawl starts from an empty visited set and an empty
\* page list: the pages a call returns were fetched during that call, and
\* no URL is skipped as visited unless that call has fetched it.
C14_StateScopedToCall ==
    /\ (crawl_pc = "running" /\ tasks[RootId].pc = "created")
           => (visited = {} /\ pages = <<>>)
    /\ crawl_pc = "returned" => PageUrls \subseteq FetchedByCall
    /\ \A id \in TaskIds :
           (tasks[id].pc = "done" /\ tasks[id].outcome = "visited")
               => tasks[id].url \in FetchedByCall

----------------------------------------------------------------------------
(* Claims about termination                                                *)

\* the links of the page at u, as _crawl_page normalizes them
LinksOf(u) ==
    {Normalize(urljoin(u, site[u].hrefs[i])) : i \in 1..Len(site[u].hrefs)}

\* the pages whose links the crawl has extracted
ExpandedUrls == {tasks[id].url : id \in {x \in TaskIds : tasks[x].expanded}}

\* C15: every crawl over a finite link graph, cycles and self-links
\* included, eventually returns when every fetch in flight eventually ends.
C15_CrawlTerminates == (crawl_pc = "running") ~> (crawl_pc = "returned")

\* the crawl has returned after it extracted the links of a page that links
\* to itself and of two pages that link to each other
C15_Witness ==
    /\ crawl_pc = "returned"
    /\ \E u \in ExpandedUrls : u \in LinksOf(u)
    /\ \E u, v \in ExpandedUrls : u # v /\ v \in LinksOf(u) /\ u \in LinksOf(v)

----------------------------------------------------------------------------
(* Claims about the visited set                                            *)

\* the URLs of the calls of _crawl_page created so far, normalized
EnqueuedUrls == {Normalize(tasks[id].arg) : id \in TaskIds}

\* the URLs of the calls that returned early for the depth or the page
\* budget
BudgetSkippedUrls ==
    {tasks[id].url : id \in {x \in TaskIds : tasks[x].outcome \in {"depth", "budget"}}}

\* C16 as stated: at every point of a crawl, visited contains every URL
\* enqueued for crawling, fetched, or skipped for the depth or page budget.
C16_VisitedCoversAll ==
    /\ EnqueuedUrls \subseteq visited
    /\ FetchedByCall \subseteq visited
    /\ BudgetSkippedUrls \subseteq visited

\* C16 as amended: at every point of a crawl, visited is the set of the
\* URLs whose fetch has been started; a URL that is enqueued but whose call
\* has not run yet, or whose call returned early for the depth or page
\* budget, is in visited only if another call has started its fetch.
C16_VisitedIsFetchStarted ==
    /\ visited = FetchedByCall
    /\ \A id \in TaskIds :
           (tasks[id].pc = "created" \/ tasks[id].outcome \in {"depth", "budget"})
               => (Normalize(tasks[id].arg) \in visited
                      <=> \E other \in TaskIds \ {id} :
                             /\ tasks[other].fetched
                             /\ tasks[other].url = Normalize(tasks[id].arg))

\* the crawl has returned, having fetched pages and having skipped a link
\* for the page budget that visited does not hold
C16_Witness ==
    /\ crawl_pc = "returned"
    /\ visited # {}
    /\ \E id \in TaskIds :
           tasks[id].outcome = "budget" /\ tasks[id].url \notin visited

----------------------------------------------------------------------------
(* Claims about the overlap between chunks                                 *)

MaxChars == max_tokens * chars_per_token

OverlapChars == overlap_tokens * chars_per_token

NoChunks == [chunks |-> <<>>, current_chunk |-> <<>>]

\* the state of the section loop of _split_by_sections(content) after its
\* first n sections
AfterSections(n) ==
    SectionLoop(SubSeq(SplitSections(content), 1, n), 1, NoChunks,
                MaxChars, OverlapChars)

\* the state of the paragraph loop of _split_by_paragraphs(text) after its
\* first n paragraphs
AfterParagraphs(text, n) ==
    ParagraphLoop(SubSeq(Split(text, <<NL, NL>>), 1, n), 1, NoChunks,
                  MaxChars, OverlapChars)

\* iteration i closes the running chunk and starts the next one with a
\* unit that fits the budget; sep is what the loop counts between them
ClosesAndStarts(cur, unit, sep) ==
    /\ Strip(unit) # <<>>
    /\ cur # <<>>
    /\ Len(cur) + Len(unit) + sep > MaxChars
    /\ Len(unit) <= MaxChars

\* the last n characters of s, all of s when it is shorter, none for n = 0
Trailing(s, n) == SubSeq(s, Max(1, Len(s) - n + 1), Len(s))

\* the sections of the document that are split by paragraphs
OversizedSections ==
    {x \in Range(SplitSections(content)) : Strip(x) # <<>> /\ Len(x) > MaxChars}

\* C17: whenever section-based or paragraph-based splitting closes a chunk
\* and starts the next one with a unit that fits the budget, the new chunk
\* is the last overlap_tokens * 4 characters of the chunk just closed (all
\* of it when it is shorter, nothing for overlap_tokens = 0) followed by
\* the new unit.
C17_OverlapExact ==
    (chunk_pc = "done" /\ Len(content) > MaxChars) =>
        /\ \A i \in 1..Len(SplitSections(content)) :
              LET cur == AfterSections(i - 1).current_chunk
                  section == SplitSections(content)[i]
              IN  ClosesAndStarts(cur, section, 0) =>
                      AfterSections(i).current_chunk
                          = Trailing(cur, OverlapChars) \o section
        /\ \A text \in OversizedSections :
              \A i \in 1..Len(Split(text, <<NL, NL>>)) :
                  LET cur == AfterParagraphs(text, i - 1).current_chunk
                      para == Split(text, <<NL, NL>>)[i]
                  IN  ClosesAndStarts(cur, para, 2) =>
                          AfterParagraphs(text, i).current_chunk
                              = Trailing(cur, OverlapChars) \o <<NL, NL>> \o para

\* section i follows a section that was split by paragraphs, whose last
\* piece is the running chunk, and closes that chunk
AfterSubSplit(i) ==
    /\ i > 1
    /\ Strip(SplitSections(content)[i - 1]) # <<>>
    /\ Len(SplitSections(content)[i - 1]) > MaxChars
    /\ Len(AfterSections(i - 2).current_chunk)
           + Len(SplitSections(content)[i - 1]) > MaxChars
    /\ ClosesAndStarts(AfterSections(i - 1).current_chunk,
                       SplitSections(content)[i], 0)

\* C18 as stated: when the chunk just closed is the last piece of the
\* sub-split of an oversized section, the chunk started next is the next
\* section alone, without an overlap prefix.
C18_NoOverlapAfterSubSplit ==
    (chunk_pc = "done" /\ Len(content) > MaxChars) =>
        \A i \in 1..Len(SplitSections(content)) :
            AfterSubSplit(i) =>
                AfterSections(i).current_chunk = SplitSections(content)[i]

\* s[-n:] as Python slices: the last n characters, all of s for n = 0 or
\* for an s that is shorter
SliceFromEnd(s, n) ==
    IF n = 0 \/ n >= Len(s) THEN s ELSE SubSeq(s, Len(s) - n + 1, Len(s))

\* C18 as amended: when the chunk just closed is the last piece of the
\* sub-split of an oversized section, the chunk started next is the slice
\* [-overlap_chars:] of that piece (its last overlap_tokens * 4 characters,
\* the whole piece when it is shorter or when overlap_tokens = 0) followed
\* by the next section: the overlap prefix is added as after any other
\* chunk.
C18_OverlapAfterSubSplit ==
    (chunk_pc = "done" /\ Len(content) > MaxChars) =>
        \A i \in 1..Len(SplitSections(content)) :
            AfterSubSplit(i) =>
                AfterSections(i).current_chunk
                    = SliceFromEnd(AfterSections(i - 1).current_chunk, OverlapChars)
                      \o SplitSections(content)[i]

\* a section that fits closed the last piece of a sub-split, a piece
\* longer than the overlap, and the chunk started with the end of that
\* piece is in the result
C18_Witness ==
    /\ chunk_pc = "done"
    /\ Len(content) > MaxChars
    /\ OverlapChars > 0
    /\ \E i \in 1..Len(SplitSections(content)) :
          /\ AfterSubSplit(i)
          /\ Len(AfterSections(i - 1).current_chunk) > OverlapChars
          /\ \E k \in 2..Len(chunks) :
                /\ chunks[k - 1] = Strip(AfterSections(i - 1).current_chunk)
                /\ StartsWith(chunks[k],
                       Trailing(AfterSections(i - 1).current_chunk, OverlapChars))

----------------------------------------------------------------------------
(* Claims about the paths the link filter lets through                     *)

\* the anchors of the page a call has fetched
HrefsOf(id) == Range(Fetch(site, tasks[id].url).hrefs)

\* what an anchor of that page points to, as the filter records it
TargetOf(id, href) == StripFragment(urljoin(tasks[id].url, href))

\* the URL holds no deny-list substring
NotDenied(full_url) ==
    LET lowered == Lower(full_url)
    IN  \A i \in 1..Len(skip_patterns) : ~Contains(lowered, skip_patterns[i])

\* none of the rejection rules the claim lists covers the anchor: it is
\* not fragment-only, not a script pseudo-URL, it is on the start URL's
\* origin and it holds no deny-list substring
NoListedRule(id, href) ==
    LET full_url == urljoin(tasks[id].url, href)
    IN  /\ Head(href) # "#"
        /\ ~StartsWith(href, <<"j", "a", "v", "a", "s", "c", "r", "i", "p", "t", ":">>)
        /\ Origin(full_url) = Origin(start_url)
        /\ NotDenied(full_url)

\* the path starts with the directory of the start URL's path or with the
\* parent of that directory, or one of the two is empty
WithinDocs(p) ==
    LET parent == RSplitSlashHead(base_path)
    IN  \/ base_path = <<>>
        \/ parent = <<>>
        \/ StartsWith(p, base_path)
        \/ StartsWith(p, parent)

\* the rules of the filter, with the start URL's host and port in place of
\* its origin and with the rule on paths
NoRule(id, href) ==
    LET full_url == urljoin(tasks[id].url, href)
    IN  /\ Head(href) # "#"
        /\ ~StartsWith(href, <<"j", "a", "v", "a", "s", "c", "r", "i", "p", "t", ":">>)
        /\ UrlNetloc(full_url) = UrlNetloc(start_url)
        /\ WithinDocs(UrlPath(full_url))
        /\ NotDenied(full_url)

\* the calls that have filtered the links of their page
Expanded == {id \in TaskIds : tasks[id].expanded}

\* the calls that have filtered the links of their page and none of whose
\* links has been entered: the links of a call are set once and visited
\* only grows, so what holds of these calls holds of all in Expanded
JustExpanded ==
    {id \in Expanded :
        \A l \in tasks[id].links :
            Append(id, l) \in TaskIds => tasks[Append(id, l)].pc = "created"}

\* C19 as stated: every anchor that is not fragment-only or a script
\* pseudo-URL, is on the start URL's origin and holds no deny-list substring
\* is eligible for traversal whatever its path: it is crawled from the page
\* unless it has been visited already.
C19_AcceptsAnyPath ==
    \A id \in JustExpanded :
        LET listed == {TargetOf(id, h) : h \in {x \in HrefsOf(id) : NoListedRule(id, x)}}
        IN  listed \subseteq (tasks[id].links \cup visited)

\* C19 as amended: an anchor that is not fragment-only or a script
\* pseudo-URL, has the start URL's host and port and holds no deny-list
\* substring is eligible for traversal when its path starts with the
\* directory of the start URL's path or with the parent of that directory
\* (or one of the two is empty), and no other anchor is: a path outside
\* both is rejected.
C19_AcceptsWithinDocs ==
    \A id \in JustExpanded :
        LET passing == {TargetOf(id, h) : h \in {x \in HrefsOf(id) : NoRule(id, x)}}
        IN  /\ passing \subseteq (tasks[id].links \cup visited)
            /\ tasks[id].links \subseteq passing

\* the filter has judged a page with one link outside the start URL's
\* directory and its parent, which it dropped, and one link inside the
\* parent, whose crawl has begun
C19_Witness ==
    \E id \in Expanded :
        /\ \E h \in HrefsOf(id) :
              /\ NoListedRule(id, h)
              /\ ~WithinDocs(UrlPath(urljoin(tasks[id].url, h)))
              /\ TargetOf(id, h) \notin tasks[id].links
        /\ \E l \in tasks[id].links :
              /\ ~StartsWith(UrlPath(l), base_path)
              /\ tasks[Append(id, l)].fetched

====
